---- MODULE Spec2Model ----
(***************************************************************************)
(* Model of compare_csv_files (src/csv_comparision.py): one run of the     *)
(* CSV comparison, from the call to its return.  The two input files, the  *)
(* paths and the output directory argument are the inputs of the run; the  *)
(* destination (created directories, written files) and the console are    *)
(* its effects.  The input files are either unreadable or well-formed      *)
(* delimited tables (a header of distinct names, every data line with as   *)
(* many fields as the header); the destination is assumed writable and     *)
(* holds no file of the run's timestamp before the run.                    *)
(***************************************************************************)
EXTENDS Naturals, Sequences, FiniteSets, TLC

\* ------------------------------------------------------------------ bounds
\* the two input files hold at most this many data lines together
MaxTotalRows == 3

\* ------------------------------------------------------------- input sets
\* the data lines a file may hold: two text fields each, some with a leading zero
DataLines == { <<"007", "7">>, <<"7", "007">>, <<"7", "7">> }
Headers == {<<"a", "b">>, <<"b", "a">>, <<"a", "c">>}
\* a file read_csv raises on
Unparseable == [unparseable |-> TRUE]
\* the value of a name not yet bound: None for strings, and for each other type
\* a value of that type the run never assigns
None == "None"
NoPath == << >>
NoFrame == [unbound |-> TRUE]
NoRows == { <<"unbound">> }
NoStats == [unbound |-> TRUE]

\* A path is a directory and a base name given as its dot-separated parts.
Paths ==
  { [dir |-> "old", base |-> <<"data", "csv">>],
    [dir |-> "new", base |-> <<"data", "csv">>],
    [dir |-> "new", base |-> <<"extract", "v2", "csv">>] }
OutputDirArgs == {None, "out"}
\* datetime.now() formatted %Y%m%d_%H%M%S, as the slices the code takes of it
Timestamps == { <<"2026", "11", "02", "_131500">> }
Answers == {"y", "Y", "n", "yes"}

SeqsUpTo(S, n) == UNION { [1..k -> S] : k \in 0..n }
FileContents ==
  {Unparseable} \cup
  { [header |-> h, lines |-> l] : h \in Headers, l \in SeqsUpTo(DataLines, MaxTotalRows) }
NumLines(content) == IF content = Unparseable THEN 0 ELSE Len(content.lines)

Range(s) == { s[i] : i \in DOMAIN s }

\* ------------------------------------------------------- library functions
\* str.lower() on the answers the prompt can get
Lower(s) == IF s = "Y" THEN "y" ELSE s

\* os.path.basename(path)
Basename(path) == path.base
\* str.split('.')[0]
SplitDotFirst(base) == base[1]
FileName(path) == SplitDotFirst(Basename(path))

\* one field as read by read_csv(dtype=str, keep_default_na=False, na_filter=False):
\* the text of the field, no numeric or NA inference
ReadFieldInferred(text) == IF text = "007" THEN "7" ELSE text
ReadField(text) == text

\* pd.read_csv of a parseable file: the header becomes the columns, every
\* data line a row of raw strings
ReadCsv(content) ==
  [ columns |-> content.header,
    rows |-> [ i \in DOMAIN content.lines |->
                 [ j \in DOMAIN content.lines[i] |-> ReadField(content.lines[i][j]) ] ] ]

\* df.astype(str) on a frame of strings
AsTypeStr(df) == df

\* set(df.astype(str).itertuples(index=False, name=None))
RowSetFirstOnly(df) == { AsTypeStr(df).rows[i] : i \in DOMAIN df.rows \cap {1} }
RowSet(df) == { AsTypeStr(df).rows[i] : i \in DOMAIN df.rows }

\* df1_rows.intersection(df2_rows)
CommonRowsUnion(rows1, rows2) == rows1 \cup rows2
CommonRows(rows1, rows2) == rows1 \cap rows2
\* df1_rows - df2_rows
MissingInFile2(rows1, rows2) == rows1 \ rows2
\* df2_rows - df1_rows
MissingInFile1Swapped(rows1, rows2) == rows1 \ rows2
MissingInFile1(rows1, rows2) == rows2 \ rows1

\* lines 67-73 as one function of the two frames
Compare(left, right) ==
  [ common |-> CommonRows(RowSet(left), RowSet(right)),
    leftOnly |-> MissingInFile2(RowSet(left), RowSet(right)),
    rightOnly |-> MissingInFile1(RowSet(left), RowSet(right)) ]

\* set(df1.columns) != set(df2.columns)
ColumnsDifferOrdered(d1, d2) == d1.columns # d2.columns
ColumnsDiffer(d1, d2) == Range(d1.columns) # Range(d2.columns)

\* proceed.lower() != 'y'
DeclinedCaseSensitive(answer) == answer # "y"
Declined(answer) == Lower(answer) # "y"

\* len(df)
TotalRowsDistinct(df) == Cardinality(RowSet(df))
TotalRows(df) == Len(df.rows)

\* The orders list(a_set) can give: every sequence listing each element once
Listings(S) == { s \in [1..Cardinality(S) -> S] : Range(s) = S }

\* pd.DataFrame(records, columns=cols).to_csv(path, index=False): the header
\* line, then one line per record, fields written as they are
ToCsv(records, cols) == [header |-> cols, lines |-> records]

\* os.path.join(output_dir, f"{n1}_missing_in_{n2}_{timestamp}.csv")
OutputPath(dir, n1, n2, ts) == <<dir, n1, "_missing_in_", n2, ts, "csv">>

\* ------------------------------------------------------------------- state
VARIABLES
  file1_path, file2_path, output_dir_arg,   \* the arguments of the call
  disk,             \* the content of the two input files, by path
  pc,               \* position of the run
  timestamp, output_dir, file1_name, file2_name,
  missing_in_file2_path, missing_in_file1_path,
  df1, df2,         \* the frames read, None before
  proceed,          \* the answer to the prompt, None before
  df1_rows, df2_rows, common_rows, missing_in_file2, missing_in_file1,
  stats,            \* the five counts, None before
  dirs,             \* directories created at the destination
  files,            \* files written at the destination: path -> content
  console,          \* what was printed
  steps             \* the steps performed so far, in order

vars == << file1_path, file2_path, output_dir_arg, disk, pc, timestamp, output_dir,
           file1_name, file2_name, missing_in_file2_path, missing_in_file1_path,
           df1, df2, proceed, df1_rows, df2_rows, common_rows, missing_in_file2,
           missing_in_file1, stats, dirs, files, console, steps >>

args == << file1_path, file2_path, output_dir_arg, disk >>
locals == << timestamp, output_dir, file1_name, file2_name,
             missing_in_file2_path, missing_in_file1_path >>
sets == << df1_rows, df2_rows, common_rows, missing_in_file2, missing_in_file1 >>

NoFiles == << >>

Init ==
  /\ file1_path \in Paths
  /\ file2_path \in Paths
  /\ output_dir_arg \in OutputDirArgs
  /\ \E c1 \in FileContents, c2 \in FileContents :
       /\ file1_path = file2_path => c2 = c1
       /\ file1_path # file2_path => NumLines(c1) + NumLines(c2) <= MaxTotalRows
       /\ disk = [ p \in {file1_path, file2_path} |->
                    IF p = file1_path THEN c1 ELSE c2 ]
  /\ pc = "start"
  /\ timestamp = NoPath /\ output_dir = NoPath
  /\ file1_name = None /\ file2_name = None
  /\ missing_in_file2_path = NoPath /\ missing_in_file1_path = NoPath
  /\ df1 = NoFrame /\ df2 = NoFrame /\ proceed = None
  /\ df1_rows = NoRows /\ df2_rows = NoRows /\ common_rows = NoRows
  /\ missing_in_file2 = NoRows /\ missing_in_file1 = NoRows
  /\ stats = NoStats
  /\ dirs = {} /\ files = NoFiles
  /\ console = << >> /\ steps = << >>

\* lines 17-33: timestamp, output directory (created), names, output paths
Setup ==
  /\ pc = "start"
  /\ \E ts \in Timestamps :
       LET dir == IF output_dir_arg = None
                    THEN <<"cwd", ts[1], ts[2], ts[3]>>
                    ELSE <<output_dir_arg>>
           n1 == FileName(file1_path)
           n2 == FileName(file2_path)
       IN /\ timestamp' = ts
          /\ output_dir' = dir
          /\ dirs' = dirs \cup {dir}
          /\ file1_name' = n1
          /\ file2_name' = n2
          /\ missing_in_file2_path' = OutputPath(dir, n1, n2, ts)
          /\ missing_in_file1_path' = OutputPath(dir, n2, n1, ts)
  /\ console' = Append(console, <<"comparing">>)
  /\ steps' = Append(steps, "makedirs")
  /\ pc' = "read1"
  /\ UNCHANGED << args, df1, df2, proceed, sets, stats, files >>

\* where the except clause leaves the run: it returns
AfterReadErrorFallThrough == "check"
AfterReadError == "read_error"

\* lines 38-43 and 51-53: read the first file, or report the error and return
ReadFile1 ==
  /\ pc = "read1"
  /\ steps' = Append(steps, "load_left")
  /\ IF disk[file1_path] = Unparseable
       THEN /\ console' = Append(console, <<"error_reading">>)
            /\ pc' = AfterReadError
            /\ UNCHANGED df1
       ELSE /\ df1' = ReadCsv(disk[file1_path])
            /\ pc' = "read2"
            /\ UNCHANGED console
  /\ UNCHANGED << args, locals, df2, proceed, sets, stats, dirs, files >>

\* ReadFile2 with the read retried after an error
ReadFile2Retry ==
  /\ pc = "read2"
  /\ steps' = Append(steps, "load_right")
  /\ IF disk[file2_path] = Unparseable
       THEN /\ console' = Append(console, <<"error_reading">>)
            /\ pc' = "read2"
            /\ UNCHANGED df2
       ELSE /\ df2' = ReadCsv(disk[file2_path])
            /\ pc' = "check"
            /\ UNCHANGED console
  /\ UNCHANGED << args, locals, df1, proceed, sets, stats, dirs, files >>

\* lines 45-53: read the second file, or report the error and return
ReadFile2 ==
  /\ pc = "read2"
  /\ steps' = Append(steps, "load_right")
  /\ IF disk[file2_path] = Unparseable
       THEN /\ console' = Append(console, <<"error_reading">>)
            /\ pc' = AfterReadError
            /\ UNCHANGED df2
       ELSE /\ df2' = ReadCsv(disk[file2_path])
            /\ pc' = "check"
            /\ UNCHANGED console
  /\ UNCHANGED << args, locals, df1, proceed, sets, stats, dirs, files >>

\* lines 55-59: the column-name check and its warning
CheckColumns ==
  /\ pc = "check"
  /\ IF ColumnsDiffer(df1, df2)
       THEN /\ console' = console \o << <<"warning_columns">>,
                                        <<"columns", file1_name, df1.columns>>,
                                        <<"columns", file2_name, df2.columns>> >>
            /\ steps' = Append(steps, "warn")
            /\ pc' = "prompt"
       ELSE /\ pc' = "sets"
            /\ UNCHANGED << console, steps >>
  /\ UNCHANGED << args, locals, df1, df2, proceed, sets, stats, dirs, files >>

\* lines 60-63: the prompt; anything but y or Y aborts
Prompt ==
  /\ pc = "prompt"
  /\ \E answer \in Answers :
       /\ proceed' = answer
       /\ IF Declined(answer)
            THEN /\ console' = Append(console, <<"aborted">>)
                 /\ pc' = "aborted"
            ELSE /\ pc' = "sets"
                 /\ UNCHANGED console
  /\ steps' = Append(steps, "prompt")
  /\ UNCHANGED << args, locals, df1, df2, sets, stats, dirs, files >>

\* lines 65-73: the two row sets and the three set operations
ComputeSets ==
  /\ pc = "sets"
  /\ df1_rows' = RowSet(df1)
  /\ df2_rows' = RowSet(df2)
  /\ common_rows' = Compare(df1, df2).common
  /\ missing_in_file2' = Compare(df1, df2).leftOnly
  /\ missing_in_file1' = Compare(df1, df2).rightOnly
  /\ steps' = Append(steps, "sets")
  /\ pc' = "report"
  /\ UNCHANGED << args, locals, df1, df2, proceed, stats, dirs, files, console >>

\* lines 75-88: the five counts, computed and printed
Report ==
  /\ pc = "report"
  /\ stats' = [ total_rows_file1 |-> TotalRows(df1),
                total_rows_file2 |-> TotalRows(df2),
                identical_rows |-> Cardinality(common_rows),
                rows_missing_in_file2 |-> Cardinality(missing_in_file2),
                rows_missing_in_file1 |-> Cardinality(missing_in_file1) ]
  /\ console' = console \o << <<"results">>,
                              <<"total", file1_name, stats'.total_rows_file1>>,
                              <<"total", file2_name, stats'.total_rows_file2>>,
                              <<"identical", stats'.identical_rows>>,
                              <<"missing", file1_name, file2_name, stats'.rows_missing_in_file2>>,
                              <<"missing", file2_name, file1_name, stats'.rows_missing_in_file1>> >>
  /\ steps' = Append(steps, "report")
  /\ pc' = "write_left"
  /\ UNCHANGED << args, locals, df1, df2, proceed, sets, dirs, files >>

\* open(path, "w") and write: the file at path holds content, whatever it held
WriteFile(fs, path, content) ==
  [ p \in DOMAIN fs \cup {path} |-> IF p = path THEN content ELSE fs[p] ]

\* lines 90-99: the rows of file 1 missing from file 2, written if there are any
WriteMissingInFile2 ==
  /\ pc = "write_left"
  /\ IF stats.rows_missing_in_file2 > 0
       THEN \E missing_records \in Listings(missing_in_file2) :
              /\ files' = WriteFile(files, missing_in_file2_path,
                                    ToCsv(missing_records, df1.columns))
              /\ console' = Append(console, <<"saved", missing_in_file2_path>>)
              /\ steps' = Append(steps, "write_left")
       ELSE /\ console' = Append(console, <<"none_missing", file1_name, file2_name>>)
            /\ UNCHANGED << files, steps >>
  /\ pc' = "write_right"
  /\ UNCHANGED << args, locals, df1, df2, proceed, sets, stats, dirs >>

\* lines 101-109: the rows of file 2 missing from file 1, written if there are any
WriteMissingInFile1 ==
  /\ pc = "write_right"
  /\ IF stats.rows_missing_in_file1 > 0
       THEN \E missing_records \in Listings(missing_in_file1) :
              /\ files' = WriteFile(files, missing_in_file1_path,
                                    ToCsv(missing_records, df2.columns))
              /\ console' = Append(console, <<"saved", missing_in_file1_path>>)
              /\ steps' = Append(steps, "write_right")
       ELSE /\ console' = Append(console, <<"none_missing", file2_name, file1_name>>)
            /\ UNCHANGED << files, steps >>
  /\ pc' = "done"
  /\ UNCHANGED << args, locals, df1, df2, proceed, sets, stats, dirs >>

Next ==
  \/ Setup
  \/ ReadFile1
  \/ ReadFile2
  \/ CheckColumns
  \/ Prompt
  \/ ComputeSets
  \/ Report
  \/ WriteMissingInFile2
  \/ WriteMissingInFile1

Spec == Init /\ [][Next]_vars

\* ----------------------------------------------------------------- claims
Terminal == pc \in {"done", "read_error", "aborted"}
SetsComputed == pc \in {"report", "write_left", "write_right", "done"}
\* the distinct RowKeys of each input table, read off the input files
LeftKeys == Range(disk[file1_path].lines)
RightKeys == Range(disk[file2_path].lines)

\* C1: once the sets are computed, common with leftOnly is the set of distinct
\* rows of the left table, common with rightOnly that of the right table, and
\* common, leftOnly and rightOnly are pairwise disjoint.
C1_PartitionCompleteness ==
  SetsComputed =>
    /\ common_rows \cup missing_in_file2 = LeftKeys
    /\ common_rows \cup missing_in_file1 = RightKeys
    /\ missing_in_file2 \cap missing_in_file1 = {}
    /\ missing_in_file2 \cap common_rows = {}
    /\ missing_in_file1 \cap common_rows = {}

\* a finished run with a row in common, a row only left and three input rows
C1_Witness ==
  /\ pc = "done"
  /\ common_rows # {} /\ missing_in_file2 # {}
  /\ Len(df1.rows) + Len(df2.rows) = 3

\* C2: the result of comparing (A, B) is the result of comparing (B, A) with
\* leftOnly and rightOnly exchanged and the same common set.
C2_Symmetry ==
  SetsComputed =>
    /\ missing_in_file2 = Compare(df2, df1).rightOnly
    /\ missing_in_file1 = Compare(df2, df1).leftOnly
    /\ common_rows = Compare(df2, df1).common

\* a run whose two one-sided sets are both non-empty, so different
C2_Witness ==
  /\ SetsComputed
  /\ missing_in_file2 # {} /\ missing_in_file1 # {}

\* C3: comparing a table with itself gives empty leftOnly and rightOnly and
\* common equal to the table's distinct rows, and the finished run has written
\* no output table.
C3_Idempotence ==
  (df1 # NoFrame /\ df1 = df2) =>
    /\ SetsComputed =>
         /\ missing_in_file2 = {}
         /\ missing_in_file1 = {}
         /\ common_rows = LeftKeys
    /\ DOMAIN files = {}

\* a finished run on two identical tables with a repeated row and two distinct rows
C3_Witness ==
  /\ pc = "done"
  /\ df1 = df2
  /\ Len(df1.rows) > Cardinality(LeftKeys)
  /\ Cardinality(LeftKeys) > 1

\* C4 as claimed: all five reported counts are counts of distinct row keys.
C4_AllCountsDistinct ==
  stats # NoStats =>
    /\ stats.total_rows_file1 = Cardinality(LeftKeys)
    /\ stats.total_rows_file2 = Cardinality(RightKeys)
    /\ stats.identical_rows = Cardinality(LeftKeys \cap RightKeys)
    /\ stats.rows_missing_in_file2 = Cardinality(LeftKeys \ RightKeys)
    /\ stats.rows_missing_in_file1 = Cardinality(RightKeys \ LeftKeys)

\* C4 (amended): the identical and the two missing counts are counts of distinct
\* row keys; the two totals are the raw numbers of data rows of the files,
\* repeated rows counted each time; these are the numbers printed.
C4_CountsReported ==
  stats # NoStats =>
    /\ stats.total_rows_file1 = Len(disk[file1_path].lines)
    /\ stats.total_rows_file2 = Len(disk[file2_path].lines)
    /\ stats.identical_rows = Cardinality(LeftKeys \cap RightKeys)
    /\ stats.rows_missing_in_file2 = Cardinality(LeftKeys \ RightKeys)
    /\ stats.rows_missing_in_file1 = Cardinality(RightKeys \ LeftKeys)
    /\ \E i \in DOMAIN console :
         /\ console[i] = <<"results">>
         /\ console[i + 1] = <<"total", file1_name, stats.total_rows_file1>>
         /\ console[i + 2] = <<"total", file2_name, stats.total_rows_file2>>
         /\ console[i + 3] = <<"identical", stats.identical_rows>>
         /\ console[i + 4] = <<"missing", file1_name, file2_name, stats.rows_missing_in_file2>>
         /\ console[i + 5] = <<"missing", file2_name, file1_name, stats.rows_missing_in_file1>>

\* a report on a left table holding one row twice, a row the right table has too
C4_Witness ==
  /\ stats # NoStats
  /\ stats.total_rows_file1 = 2
  /\ Cardinality(LeftKeys) = 1
  /\ stats.identical_rows = 1
  /\ file1_path # file2_path

\* the destination holds a table with this header and exactly these rows
HasTable(cols, rowset) ==
  \E p \in DOMAIN files : files[p].header = cols /\ Range(files[p].lines) = rowset
NonEmptySides ==
  (IF missing_in_file2 # {} THEN 1 ELSE 0) + (IF missing_in_file1 # {} THEN 1 ELSE 0)

\* C5: after a completed run, each side has an output table at the destination
\* exactly when it has a unique row; with unique rows on both sides the
\* destination holds two separate tables, one listing exactly the leftOnly rows
\* and one exactly the rightOnly rows.
C5_OutputPerSide ==
  pc = "done" =>
    /\ Cardinality(DOMAIN files) = NonEmptySides
    /\ missing_in_file2 # {} => HasTable(df1.columns, missing_in_file2)
    /\ missing_in_file1 # {} => HasTable(df2.columns, missing_in_file1)

\* the table an input file and the other file's rows determine for a side
FaithfulTo(f, content, other) ==
  /\ f.header = content.header
  /\ Range(f.lines) = Range(content.lines) \ Range(other.lines)
  /\ \A i \in DOMAIN f.lines :
       \E k \in DOMAIN content.lines : f.lines[i] = content.lines[k]

HasUnparseable == disk[file1_path] = Unparseable \/ disk[file2_path] = Unparseable
IsCount(line) == line[1] \in {"results", "total", "identical", "missing"}

\* C7: when either file cannot be parsed, the run reports the read error and
\* returns: the sets are never computed, no count is printed and no output
\* table is written.
C7_ReadErrorAborts ==
  HasUnparseable =>
    /\ pc \in {"start", "read1", "read2", "read_error"}
    /\ df1_rows = NoRows /\ df2_rows = NoRows /\ common_rows = NoRows
    /\ missing_in_file2 = NoRows /\ missing_in_file1 = NoRows
    /\ stats = NoStats
    /\ \A i \in DOMAIN console : ~IsCount(console[i])
    /\ DOMAIN files = {}
    /\ pc = "read_error" => console[Len(console)] = <<"error_reading">>
    /\ Terminal \/ ENABLED Next

\* the left file was read and the right one failed
C7_Witness ==
  /\ pc = "read_error"
  /\ df1 # NoFrame
  /\ steps = <<"makedirs", "load_left", "load_right">>

ColumnSetsDiffer == Range(disk[file1_path].header) # Range(disk[file2_path].header)

\* C8: when the column-name sets differ the warning and the prompt come before
\* any set computation; an answer other than y or Y aborts the run with no set
\* computed and no output table written, and the run stays there; after y or Y
\* the sets are those of the positional row tuples, as without the warning.
C8_SchemaWarning ==
  /\ (~HasUnparseable /\ ColumnSetsDiffer /\ pc \notin {"start", "read1", "read2", "check"}) =>
       /\ \E i \in DOMAIN console : console[i] = <<"warning_columns">>
       /\ "warn" \in Range(steps)
       /\ pc # "prompt" => proceed # None
  /\ pc = "prompt" =>
       /\ df1_rows = NoRows /\ common_rows = NoRows
       /\ DOMAIN files = {}
  /\ proceed \notin {None, "y", "Y"} =>
       /\ pc = "aborted"
       /\ ~ENABLED Next
       /\ common_rows = NoRows /\ missing_in_file2 = NoRows /\ missing_in_file1 = NoRows
       /\ stats = NoStats
       /\ DOMAIN files = {}
  /\ proceed \in {"y", "Y"} =>
       /\ pc # "aborted"
       /\ SetsComputed =>
            /\ common_rows = LeftKeys \cap RightKeys
            /\ missing_in_file2 = LeftKeys \ RightKeys
            /\ missing_in_file1 = RightKeys \ LeftKeys

\* a run confirmed with Y that found a row common to tables of different columns
C8_Witness ==
  /\ pc = "done"
  /\ proceed = "Y"
  /\ common_rows # {}
  /\ missing_in_file2 # {}

\* the place of each step in the fixed sequence
StepRank(step) ==
  CASE step = "makedirs" -> 1
    [] step = "load_left" -> 2
    [] step = "load_right" -> 3
    [] step = "warn" -> 4
    [] step = "prompt" -> 5
    [] step = "sets" -> 6
    [] step = "report" -> 7
    [] step = "write_left" -> 8
    [] step = "write_right" -> 9

\* the steps in their fixed order, none twice; output tables only after both
\* loads and the set computation; the run ends or can go on
C9_Sequence ==
  /\ \A i, j \in DOMAIN steps : i < j => StepRank(steps[i]) < StepRank(steps[j])
  /\ DOMAIN files # {} =>
       /\ df1 # NoFrame /\ df2 # NoFrame
       /\ common_rows # NoRows /\ missing_in_file2 # NoRows /\ missing_in_file1 # NoRows
  /\ "sets" \in Range(steps) => {"load_left", "load_right"} \subseteq Range(steps)
  /\ Terminal \/ ENABLED Next

\* C9 as claimed: that, and nothing created at the destination before both
\* loads and the set computation.
C9_NothingCreatedBeforeLoads ==
  /\ C9_Sequence
  /\ dirs # {} =>
       /\ df1 # NoFrame /\ df2 # NoFrame
       /\ common_rows # NoRows

\* C9 (amended): every run performs its steps in the fixed sequence create the
\* destination directory, load left, load right, compute the sets, write the
\* left-only table, write the right-only table, no step twice; no output table
\* is written before both loads and the set computation, while the destination
\* directory exists from the first step on, before either load; every run ends
\* by completing, by the read error or by the declined prompt.
C9_SequenceAfterMakedirs ==
  /\ C9_Sequence
  /\ pc # "start" => (dirs = {output_dir} /\ steps[1] = "makedirs")
  /\ pc = "start" => dirs = {}

\* a completed run that wrote both tables
C9_Witness ==
  /\ pc = "done"
  /\ steps = <<"makedirs", "load_left", "load_right", "sets", "report",
               "write_left", "write_right">>

\* the two frames name the same columns in different orders
Reordered ==
  /\ df1 # NoFrame /\ df2 # NoFrame
  /\ Range(df1.columns) = Range(df2.columns)
  /\ df1.columns # df2.columns
\* a left row and a right row with the same value under each column name
SameByName(r1, r2) ==
  \A i \in DOMAIN df1.columns, j \in DOMAIN df2.columns :
    df1.columns[i] = df2.columns[j] => r1[i] = r2[j]
NoWarning ==
  /\ pc \notin {"prompt", "aborted"}
  /\ proceed = None
  /\ \A i \in DOMAIN console : console[i] # <<"warning_columns">>

\* C10 as claimed: equal column-name sets in different orders give no warning
\* and no prompt, and a left and a right row equal by name whose tuples differ
\* are in leftOnly and rightOnly, not in common.
C10_ReorderedPairNeverCommon ==
  Reordered =>
    /\ NoWarning
    /\ SetsComputed =>
         \A r1 \in LeftKeys, r2 \in RightKeys :
           (SameByName(r1, r2) /\ r1 # r2) =>
             /\ r1 \in missing_in_file2 /\ r1 \notin common_rows
             /\ r2 \in missing_in_file1 /\ r2 \notin common_rows

\* C10 (amended): equal column-name sets in different orders give no warning
\* and no prompt; a left and a right row equal by name whose tuples differ do
\* not match each other: each is common exactly when its own tuple equals,
\* position by position, the tuple of some row of the other table, and is in
\* leftOnly (rightOnly) otherwise.
C10_ReorderedPairPositional ==
  Reordered =>
    /\ NoWarning
    /\ SetsComputed =>
         \A r1 \in LeftKeys, r2 \in RightKeys :
           (SameByName(r1, r2) /\ r1 # r2) =>
             /\ r1 \in common_rows <=> r1 \in RightKeys
             /\ r1 \in missing_in_file2 <=> r1 \notin RightKeys
             /\ r2 \in common_rows <=> r2 \in LeftKeys
             /\ r2 \in missing_in_file1 <=> r2 \notin LeftKeys

\* a finished run on reordered columns where a pair equal by name went to
\* leftOnly and rightOnly
C10_Witness ==
  /\ pc = "done"
  /\ Reordered
  /\ \E r1 \in LeftKeys, r2 \in RightKeys :
       /\ SameByName(r1, r2) /\ r1 # r2
       /\ r1 \in missing_in_file2 /\ r2 \in missing_in_file1

====
